---- MODULE Spec2Model ----
(***************************************************************************)
(* Model of package ward (src/ward.go): the process-wide endpoint and      *)
(* timeout settings, the two setters, and the stages of RequestPickup and  *)
(* RateQuote (marshal, client, POST, read body, unmarshal, result check).  *)
(* The standard library calls the package makes (encoding/xml, net/http,   *)
(* time.Duration arithmetic) are modelled by what they do on the values    *)
(* the package hands them.                                                 *)
(***************************************************************************)
EXTENDS Integers, Sequences, FiniteSets, TLC

(***************************************************************************)
(* Bounds of the model.                                                    *)
(***************************************************************************)
\* longest string field of a request
MaxStrLen == 2
\* longest Details / Accessorials list of a rate quote request
MaxItems == 2
\* largest value of an unsigned numeric request field
MaxUint == 11

(***************************************************************************)
(* time.Duration: a signed 64-bit count of nanoseconds, kept as its eight  *)
(* two's-complement bytes, least significant first, so that the product in *)
(* SetTimeout wraps exactly as the int64 product does.                     *)
(***************************************************************************)
RECURSIVE FromNat(_, _)
\* the first n bytes (least significant first) of the natural number v
FromNat(v, n) == IF n = 0 THEN <<>> ELSE <<v % 256>> \o FromNat(v \div 256, n - 1)

\* a small natural number as an int64
Dur(v) == FromNat(v, 8)

RECURSIVE ColSum(_, _, _, _)
\* the sum of a[j] * b[i+1-j] for j in k..i: column i of the long multiplication
ColSum(a, b, i, k) ==
    IF k > i THEN 0
    ELSE (IF k <= Len(a) /\ i + 1 - k <= Len(b) THEN a[k] * b[i + 1 - k] ELSE 0)
         + ColSum(a, b, i, k + 1)

RECURSIVE MulCols(_, _, _, _, _)
\* columns i..n of the product of a and b, with the carry into column i
MulCols(a, b, i, n, carry) ==
    IF i > n THEN <<>>
    ELSE LET s == ColSum(a, b, i, 1) + carry
         IN  <<s % 256>> \o MulCols(a, b, i + 1, n, s \div 256)

\* the exact product of two unsigned 8-byte numbers, 16 bytes
MulWide(a, b) == MulCols(a, b, 1, 16, 0)

\* the int64 product: the low 64 bits of the product (Go's * on int64 wraps)
Mul64(a, b) == MulCols(a, b, 1, 8, 0)

IsNeg(a) == a[8] >= 128
IsZero(a) == \A i \in 1..8 : a[i] = 0
IsPositive(a) == ~IsNeg(a) /\ ~IsZero(a)

RECURSIVE AddOne(_, _)
\* a + 1 from byte i on, wrapping at 64 bits
AddOne(a, i) ==
    IF i > 8 THEN a
    ELSE IF a[i] = 255 THEN AddOne([a EXCEPT ![i] = 0], i + 1)
    ELSE [a EXCEPT ![i] = a[i] + 1]

\* two's-complement negation
Neg64(a) == AddOne([i \in 1..8 |-> 255 - a[i]], 1)

\* the magnitude of a as an unsigned 8-byte number (2^63 for the least int64)
Abs64(a) == IF IsNeg(a) THEN Neg64(a) ELSE a

\* whether the mathematical product of the int64 values a and b fits an int64
ProductFits(a, b) ==
    LET m == MulWide(Abs64(a), Abs64(b))
        high == \E i \in 9..16 : m[i] # 0
        neg == IsNeg(a) # IsNeg(b)
        minInt == m[8] = 128 /\ \A i \in 1..7 : m[i] = 0
    IN  ~high /\ (m[8] < 128 \/ (neg /\ minInt))

\* time.Second: 1,000,000,000 ns = 0x3B9ACA00
Second == <<0, 202, 154, 59, 0, 0, 0, 0>>

\* the initial value of timeout: time.Duration(10 * time.Second)
DefaultTimeout == Mul64(Dur(10), Second)

\* the arguments SetTimeout is called with: 0, 1, -1, a Duration of ten
\* seconds (10^10 ns, whose product wraps to a negative value), 18446744074
\* (wraps to a small positive value) and 2^55 (wraps to exactly 0)
TimeoutArgs ==
    { Dur(0), Dur(1), Neg64(Dur(1)),
      Mul64(Dur(10), Second),
      <<10, 250, 130, 75, 4, 0, 0, 0>>,
      <<0, 0, 0, 0, 0, 0, 128, 0>> }

(***************************************************************************)
(* The endpoints.                                                          *)
(***************************************************************************)
pickupRequestTestURL == "http://208.51.75.23:6082/cgi-bin/map/PICKUPTEST"
pickupRequestProductionURL == "http://208.51.75.23:6082/cgi-bin/map/PICKUP"
rateQuoteURL == "http://208.51.75.23:6082/cgi-bin/map/RATEQUOTE"

(***************************************************************************)
(* encoding/xml as the package uses it.  A string is a sequence of         *)
(* characters; on the wire it is a sequence of tokens, a character or an   *)
(* entity.  An element is [name, attrs, text, kids]; a name is the pair    *)
(* of its prefix (the part before the colon, "" if none) and local part.   *)
(***************************************************************************)
\* the characters of a request's string fields: a letter, two characters
\* that XML escapes, and a control character that XML cannot carry
Chars == {"a", "<", "&", "U+0001"}

QName(p, l) == [prefix |-> p, local |-> l]
Elem(n, a, t, k) == [name |-> n, attrs |-> a, text |-> t, kids |-> k]
Attr(n, v) == [name |-> n, value |-> v]

\* xml.EscapeText on one character: markup characters become entities, a
\* character outside the XML character range becomes U+FFFD
EscapeChar(c) ==
    CASE c = "<" -> "&lt;"
      [] c = "&" -> "&amp;"
      [] c = "U+0001" -> "U+FFFD"
      [] OTHER -> c

EscapeText(s) == [i \in 1..Len(s) |-> EscapeChar(s[i])]

\* the decoder's reading of one token of character data
UnescapeToken(t) ==
    CASE t = "&lt;" -> "<"
      [] t = "&amp;" -> "&"
      [] OTHER -> t

UnescapeText(t) == [i \in 1..Len(t) |-> UnescapeToken(t[i])]

Digits == <<"0", "1", "2", "3", "4", "5", "6", "7", "8", "9">>

RECURSIVE FormatUint(_)
\* strconv.FormatUint(n, 10)
FormatUint(n) ==
    IF n < 10 THEN <<Digits[n + 1]>>
    ELSE FormatUint(n \div 10) \o <<Digits[(n % 10) + 1]>>

IsDigit(c) == \E d \in 1..10 : Digits[d] = c
DigitValue(c) == (CHOOSE d \in 1..10 : Digits[d] = c) - 1

RECURSIVE DigitsValue(_, _)
DigitsValue(t, acc) ==
    IF t = <<>> THEN acc ELSE DigitsValue(Tail(t), 10 * acc + DigitValue(Head(t)))

\* the decoder's copyValue into an unsigned field: empty text is 0, anything
\* but decimal digits is an error
ParseUint(t) ==
    IF t = <<>> THEN [err |-> FALSE, val |-> 0]
    ELSE IF \A i \in 1..Len(t) : IsDigit(t[i])
         THEN [err |-> FALSE, val |-> DigitsValue(t, 0)]
         ELSE [err |-> TRUE, val |-> 0]

\* the decoder's copyValue into a float64 field: empty text is 0; digits with
\* at most one point parse to (whole part, fraction digits); else an error
ParseFloat(t) ==
    LET dots == {i \in 1..Len(t) : t[i] = "."}
        ok == /\ Cardinality(dots) <= 1
              /\ \A i \in (1..Len(t)) \ dots : IsDigit(t[i])
              /\ Len(t) > Cardinality(dots)
        cut == IF dots = {} THEN Len(t) + 1 ELSE CHOOSE i \in dots : TRUE
    IN  IF t = <<>> THEN [err |-> FALSE, val |-> <<0, <<>>>>]
        ELSE IF ok
             THEN [err |-> FALSE,
                   val |-> <<DigitsValue(SubSeq(t, 1, cut - 1), 0),
                             SubSeq(t, cut + 1, Len(t))>>]
             ELSE [err |-> TRUE, val |-> <<0, <<>>>>]

\* a faulty variant of MatchesTag: the tag's prefix and local part are
\* compared with those of the element
MatchesQualifiedName(tag, name) == tag = name

\* how the unmarshaller matches a struct tag against a decoded start
\* element: it compares the tag's whole name, colon included, with the
\* element's local name, which the decoder has already cut at the colon.
\* A tag with a prefix therefore matches no element.
MatchesTag(tag, name) == tag.prefix = "" /\ tag.local = name.local

RECURSIVE KidsOf(_, _)
\* the children, in document order, of the elements es that match tag
KidsOf(es, tag) ==
    IF es = <<>> THEN <<>>
    ELSE SelectSeq(Head(es).kids, LAMBDA k : MatchesTag(tag, k.name))
         \o KidsOf(Tail(es), tag)

RECURSIVE AtPath(_, _)
\* the elements reached from es along a tag path a>b>c
AtPath(es, path) ==
    IF path = <<>> THEN es ELSE AtPath(KidsOf(es, Head(path)), Tail(path))

\* a string field: the text of the last matching element, "" if there is none
StringField(es, path) ==
    LET hit == AtPath(es, path)
    IN  IF hit = <<>> THEN <<>> ELSE UnescapeText(hit[Len(hit)].text)

\* the text to be copied into a numeric field: that of the last match
NumberText(es, path) ==
    LET hit == AtPath(es, path)
    IN  IF hit = <<>> THEN <<>> ELSE UnescapeText(hit[Len(hit)].text)

(***************************************************************************)
(* The request structures and their serialization (xml.Marshal).  One      *)
(* string field and one unsigned field stand for the flat lists of string  *)
(* and uint fields of PickupRequestShipperInformation and                  *)
(* PickupRequestShipment, which are all marshalled alike.                  *)
(***************************************************************************)
xsiAttr == "http://www.w3.org/2001/XMLSchema-instance"
xsdAttr == "http://www.w3.org/2001/XMLSchema"
soap12Attr == "http://www.w3.org/2003/05/soap-envelope"

SeqsUpTo(S, n) == UNION {[1..k -> S] : k \in 0..n}

Strs == SeqsUpTo(Chars, MaxStrLen)

\* values of an unsigned field: one digit, and two digits up to the bound
UintSamples == {0, 9, MaxUint - 1, MaxUint}

\* the pickup requests a caller populates (the attributes are not the
\* caller's to set: RequestPickup overwrites them)
PickupRequest ==
    [XsiAttr : {""}, XsdAttr : {""}, Soap12Attr : {""},
     ShipperInfo : [ShipperCode : Strs],
     Shipment : [Pieces : UintSamples]]

RateQuoteDetailItem == [Weight : {9, MaxUint}]
RateQuoteAccessorialItem == [Code : {<<"a">>, <<"<">>}]

RateQuoteRequest ==
    [XsiAttr : {""}, XsdAttr : {""}, Soap12Attr : {""},
     Request : [Details : SeqsUpTo(RateQuoteDetailItem, MaxItems),
                Accessorials : SeqsUpTo(RateQuoteAccessorialItem, MaxItems),
                PalletCount : {0, MaxUint}]]

\* the three namespace attributes of the envelope
EnvelopeAttrs(p) ==
    << Attr(QName("xmlns", "xsi"), p.XsiAttr),
       Attr(QName("xmlns", "xsd"), p.XsdAttr),
       Attr(QName("xmlns", "soap12"), p.Soap12Attr) >>

Leaf(n, t) == Elem(QName("", n), <<>>, t, <<>>)
Node(n, k) == Elem(n, <<>>, <<>>, k)

\* xml.Marshal(p) for a *PickupRequest: the element names are the tags,
\* written as they stand; fields that share parents share the elements
MarshalPickupRequest(p) ==
    [err |-> "",
     doc |-> Elem(QName("soap12", "Envelope"), EnvelopeAttrs(p), <<>>,
               << Node(QName("soap12", "Body"),
                   << Node(QName("", "request"),
                       << Node(QName("", "ShipperInformation"),
                            << Leaf("ShipperCode",
                                    EscapeText(p.ShipperInfo.ShipperCode)) >>),
                          Node(QName("", "Shipment"),
                            << Leaf("Pieces",
                                    FormatUint(p.Shipment.Pieces)) >>) >>) >>) >>)]

\* xml.Marshal(p) for a *RateQuoteRequest: a list field a>b writes one b per
\* element, in order, inside a single a
MarshalRateQuoteRequest(p) ==
    LET r == p.Request
        details == [i \in 1..Len(r.Details) |->
                      Node(QName("", "DetailItem"),
                           << Leaf("Weight", FormatUint(r.Details[i].Weight)) >>)]
        accs == [i \in 1..Len(r.Accessorials) |->
                      Node(QName("", "AccessorialItem"),
                           << Leaf("Code", EscapeText(r.Accessorials[i].Code)) >>)]
    IN  [err |-> "",
         doc |-> Elem(QName("soap12", "Envelope"), EnvelopeAttrs(p), <<>>,
                   << Node(QName("soap12", "Body"),
                       << Node(QName("", "request"),
                           << Node(QName("", "Details"), details),
                              Node(QName("", "Accessorials"), accs),
                              Leaf("PalletCount", FormatUint(r.PalletCount)) >>) >>) >>)]

\* xml.Header + string(xmlBytes) + "\n"
XMLString(doc) == [header |-> "<?xml version=\"1.0\" encoding=\"UTF-8\"?>\n",
                   doc |-> doc, trailer |-> "\n"]

\* an attribute field: the value of the last attribute the tag matches
AttrField(e, tag) ==
    LET hit == SelectSeq(e.attrs, LAMBDA a : MatchesTag(tag, a.name))
    IN  IF hit = <<>> THEN "" ELSE hit[Len(hit)].value

ZeroPickupRequest ==
    [XsiAttr |-> "", XsdAttr |-> "", Soap12Attr |-> "",
     ShipperInfo |-> [ShipperCode |-> <<>>], Shipment |-> [Pieces |-> 0]]

ZeroRateQuoteRequest ==
    [XsiAttr |-> "", XsdAttr |-> "", Soap12Attr |-> "",
     Request |-> [Details |-> <<>>, Accessorials |-> <<>>, PalletCount |-> 0]]

\* xml.Unmarshal of a serialized request into a PickupRequest: the root is
\* matched against the XMLName tag first, then each field along its path
UnmarshalPickupRequest(x) ==
    LET root == x.doc
        body == <<QName("soap12", "Body"), QName("", "request")>>
        pieces == ParseUint(NumberText(<<root>>,
                     body \o <<QName("", "Shipment"), QName("", "Pieces")>>))
    IN  IF ~MatchesTag(QName("soap12", "Envelope"), root.name)
        THEN [err |-> "expected element type <soap12:Envelope>",
              val |-> ZeroPickupRequest]
        ELSE IF pieces.err
        THEN [err |-> "strconv.ParseUint", val |-> ZeroPickupRequest]
        ELSE [err |-> "",
              val |-> [XsiAttr |-> AttrField(root, QName("xmlns", "xsi")),
                       XsdAttr |-> AttrField(root, QName("xmlns", "xsd")),
                       Soap12Attr |-> AttrField(root, QName("xmlns", "soap12")),
                       ShipperInfo |-> [ShipperCode |->
                           StringField(<<root>>, body \o
                               <<QName("", "ShipperInformation"),
                                 QName("", "ShipperCode")>>)],
                       Shipment |-> [Pieces |-> pieces.val]]]

\* xml.Unmarshal of a serialized request into a RateQuoteRequest
UnmarshalRateQuoteRequest(x) ==
    LET root == x.doc
        body == <<QName("soap12", "Body"), QName("", "request")>>
        items == AtPath(<<root>>, body \o <<QName("", "Details"), QName("", "DetailItem")>>)
        accs == AtPath(<<root>>, body \o <<QName("", "Accessorials"),
                                           QName("", "AccessorialItem")>>)
        weights == [i \in 1..Len(items) |->
                      ParseUint(NumberText(<<items[i]>>, <<QName("", "Weight")>>))]
        pallets == ParseUint(NumberText(<<root>>, body \o <<QName("", "PalletCount")>>))
    IN  IF ~MatchesTag(QName("soap12", "Envelope"), root.name)
        THEN [err |-> "expected element type <soap12:Envelope>",
              val |-> ZeroRateQuoteRequest]
        ELSE IF pallets.err \/ \E i \in 1..Len(items) : weights[i].err
        THEN [err |-> "strconv.ParseUint", val |-> ZeroRateQuoteRequest]
        ELSE [err |-> "",
              val |-> [XsiAttr |-> AttrField(root, QName("xmlns", "xsi")),
                       XsdAttr |-> AttrField(root, QName("xmlns", "xsd")),
                       Soap12Attr |-> AttrField(root, QName("xmlns", "soap12")),
                       Request |->
                         [Details |-> [i \in 1..Len(items) |->
                                         [Weight |-> weights[i].val]],
                          Accessorials |-> [i \in 1..Len(accs) |->
                              [Code |-> StringField(<<accs[i]>>, <<QName("", "Code")>>)]],
                          PalletCount |-> pallets.val]]]

(***************************************************************************)
(* The response bodies the server may send, and their deserialization.     *)
(* A body is empty, not XML at all, or one root element that is complete   *)
(* ("wellFormed"), lacks its end tag ("unclosedRoot"), or is complete and  *)
(* followed by stray markup ("junkAfterRoot").  Only "wellFormed" bodies   *)
(* are well-formed XML documents.                                          *)
(***************************************************************************)
\* the children a CreateResult element may carry in a pickup response
PickupResultKids ==
    { c \o m \o t :
        c \in { <<>>, <<Leaf("PickupConfirmation", <<>>)>>,
                <<Leaf("PickupConfirmation", <<"A", "B", "C", "1", "2", "3">>)>>,
                <<Leaf("PickupConfirmation", <<"7", "&amp;", "7">>)>> },
        m \in { <<>>, <<Leaf("Message", <<"n", "o">>)>> },
        t \in { <<>>, <<Leaf("PickupTerminal", <<"T">>)>> } }
    \ { c \o t :
        c \in { <<>>, <<Leaf("PickupConfirmation", <<>>)>>,
                <<Leaf("PickupConfirmation", <<"A", "B", "C", "1", "2", "3">>)>>,
                <<Leaf("PickupConfirmation", <<"7", "&amp;", "7">>)>> },
        t \in { <<Leaf("PickupTerminal", <<"T">>)>> } }

\* the children a CreateResult element may carry in a rate quote response
QuoteResultKids ==
    { c \o q :
        c \in { <<>>, <<Leaf("NetCharge", <<>>)>>,
                <<Leaf("NetCharge", <<"1", ".", "5">>)>>,
                <<Leaf("NetCharge", <<"x">>)>> },
        q \in { <<>>, <<Leaf("QuoteID", <<"Q">>)>> } }

\* an envelope with the result nested at Body/CreateResponse/CreateResult
Envelope(root, kids) ==
    Node(root, << Node(QName("", "Body"),
                   << Node(QName("", "CreateResponse"),
                       << Node(QName("", "CreateResult"), kids) >>) >>) >>)

RootNames == {QName("", "Envelope"), QName("soap12", "Envelope"), QName("", "Fault")}

\* the root elements: every result under an unprefixed Envelope, a few
\* under a prefixed one and under a root that is no Envelope, and each root
\* with nothing inside
Docs ==
    { Envelope(QName("", "Envelope"), k) : k \in PickupResultKids \cup QuoteResultKids }
    \cup { Envelope(r, k) :
             r \in RootNames,
             k \in { <<>>,
                     <<Leaf("PickupConfirmation", <<"A", "B", "C", "1", "2", "3">>)>>,
                     <<Leaf("NetCharge", <<"1", ".", "5">>)>> } }
    \cup { Node(r, <<>>) : r \in RootNames }

NoDoc == Node(QName("", ""), <<>>)

Bodies ==
    { [syntax |-> "empty", doc |-> NoDoc], [syntax |-> "notXML", doc |-> NoDoc] }
    \cup [syntax : {"wellFormed", "unclosedRoot", "junkAfterRoot"}, doc : Docs]

NoBody == [syntax |-> "none", doc |-> NoDoc]

\* whether the body is a well-formed XML document
WellFormed(b) == b.syntax = "wellFormed"

\* a faulty variant of ResultPath: the CreateResponse level is left out
ResultPathShort == <<QName("", "Body"), QName("", "CreateResult")>>

\* the path of the CreateResult field: Body>CreateResponse>CreateResult
ResultPath == <<QName("", "Body"), QName("", "CreateResponse"), QName("", "CreateResult")>>

ZeroPickupRequestResponse ==
    [CreateResult |-> [PickupConfirmation |-> <<>>, Message |-> <<>>,
                       PickupTerminal |-> <<>>]]

ZeroRateQuoteResponse ==
    [CreateResult |-> [NetCharge |-> <<0, <<>>>>, QuoteID |-> <<>>]]

\* the error of reading the tokens of the body up to the end of its root
\* element: the decoder stops there and never looks at what follows
DecodeError(b) ==
    CASE b.syntax = "empty" -> "EOF"
      [] b.syntax = "notXML" -> "XML syntax error"
      [] b.syntax = "unclosedRoot" -> "XML syntax error: unexpected EOF"
      [] OTHER -> ""

\* xml.Unmarshal(body, &responseData) for a PickupRequestResponse
UnmarshalPickupRequestResponse(b) ==
    LET root == b.doc
        data == [CreateResult |->
                   [PickupConfirmation |->
                      StringField(<<root>>, ResultPath \o <<QName("", "PickupConfirmation")>>),
                    Message |->
                      StringField(<<root>>, ResultPath \o <<QName("", "Message")>>),
                    PickupTerminal |->
                      StringField(<<root>>, ResultPath \o <<QName("", "PickupTerminal")>>)]]
    IN  IF b.syntax \in {"empty", "notXML"}
        THEN [err |-> DecodeError(b), val |-> ZeroPickupRequestResponse]
        ELSE IF ~MatchesTag(QName("", "Envelope"), root.name)
        THEN [err |-> "expected element type <Envelope>",
              val |-> ZeroPickupRequestResponse]
        ELSE [err |-> DecodeError(b), val |-> data]

\* xml.Unmarshal(body, &responseData) for a RateQuoteResponse
UnmarshalRateQuoteResponse(b) ==
    LET root == b.doc
        charge == ParseFloat(NumberText(<<root>>, ResultPath \o <<QName("", "NetCharge")>>))
        data == [CreateResult |->
                   [NetCharge |-> charge.val,
                    QuoteID |->
                      StringField(<<root>>, ResultPath \o <<QName("", "QuoteID")>>)]]
    IN  IF b.syntax \in {"empty", "notXML"}
        THEN [err |-> DecodeError(b), val |-> ZeroRateQuoteResponse]
        ELSE IF ~MatchesTag(QName("", "Envelope"), root.name)
        THEN [err |-> "expected element type <Envelope>",
              val |-> ZeroRateQuoteResponse]
        ELSE IF charge.err
        THEN [err |-> "strconv.ParseFloat", val |-> ZeroRateQuoteResponse]
        ELSE [err |-> DecodeError(b), val |-> data]

(***************************************************************************)
(* The state.  pickupRequestURL and timeout are the package's globals; the *)
(* rest is one caller's invocation of RequestPickup or RateQuote: its      *)
(* position pc, its locals, and what it returns.  modeArg, timeoutArg,     *)
(* posts, postedURL and stages record what has happened (the last argument *)
(* of each setter, the POSTs of the invocation and their URL, the stages   *)
(* entered) and are read by no action.  setter is a second goroutine that  *)
(* runs SetProductionMode or SetTimeout beside the call: the global it is  *)
(* storing to, if any, and the argument it was called with.                *)
(***************************************************************************)
VARIABLES pickupRequestURL, timeout, pc, op, req, xmlString, httpClient,
          body, responseData, err, logged,
          modeArg, timeoutArg, posts, postedURL, stages, setter

vars == <<pickupRequestURL, timeout, pc, op, req, xmlString, httpClient,
          body, responseData, err, logged,
          modeArg, timeoutArg, posts, postedURL, stages, setter>>

globals == <<pickupRequestURL, timeout, modeArg, timeoutArg, setter>>
locals == <<op, req, xmlString, httpClient, body, responseData, err, logged,
            posts, postedURL, stages>>

NoErr == [msg |-> "", cause |-> ""]
NoRequest == [none |-> TRUE]
NoXML == [header |-> "", doc |-> NoDoc, trailer |-> ""]
NoClient == [Timeout |-> <<>>]
NoResponse == [none |-> TRUE]
NoSetter == [storing |-> "", yes |-> FALSE, seconds |-> <<>>]

\* errors.Wrap(cause, "ward.<operation> - <message>")
Wrap(o, message, cause) ==
    [msg |-> (IF o = "pickup" THEN "ward.RequestPickup - " ELSE "ward.RateQuote - ")
             \o message,
     cause |-> cause]

\* errors.New("ward.RequestPickup - pickup request failed")
PickupFailed == [msg |-> "ward.RequestPickup - pickup request failed", cause |-> ""]

Init ==
    /\ pickupRequestURL = pickupRequestTestURL
    /\ timeout = DefaultTimeout
    /\ pc = "idle"
    /\ op = "none"
    /\ req = NoRequest
    /\ xmlString = NoXML
    /\ httpClient = NoClient
    /\ body = NoBody
    /\ responseData = NoResponse
    /\ err = NoErr
    /\ logged = FALSE
    /\ modeArg = "none"
    /\ timeoutArg = <<>>
    /\ posts = 0
    /\ postedURL = ""
    /\ stages = <<>>
    /\ setter = NoSetter

\* a faulty variant of ProductionModeURL: the argument chooses the URL
ProductionModeURLByArgument(yes) ==
    IF yes THEN pickupRequestProductionURL ELSE pickupRequestTestURL

\* the URL SetProductionMode(yes) stores: the production URL, whatever yes is
ProductionModeURL(yes) == pickupRequestProductionURL

\* SetProductionMode(yes), the whole call as one step: its store is ordered
\* with every read of the URL
SetProductionMode(yes) ==
    /\ setter.storing = ""
    /\ pickupRequestURL' = ProductionModeURL(yes)
    /\ modeArg' = IF yes THEN "true" ELSE "false"
    /\ UNCHANGED <<timeout, timeoutArg, setter, pc, locals>>

\* the value SetTimeout(seconds) stores: seconds * time.Second as an int64
TimeoutValue(seconds) == Mul64(seconds, Second)

\* SetTimeout(seconds), the whole call as one step: its store is ordered
\* with every read of the timeout
SetTimeout(seconds) ==
    /\ setter.storing = ""
    /\ timeout' = TimeoutValue(seconds)
    /\ timeoutArg' = seconds
    /\ UNCHANGED <<pickupRequestURL, modeArg, setter, pc, locals>>

\* another goroutine enters SetProductionMode(yes): its store to
\* pickupRequestURL is under way and no lock or channel orders it with the
\* call's reads
BeginSetProductionMode(yes) ==
    /\ setter.storing = ""
    /\ setter' = [NoSetter EXCEPT !.storing = "pickupRequestURL", !.yes = yes]
    /\ modeArg' = IF yes THEN "true" ELSE "false"
    /\ UNCHANGED <<pickupRequestURL, timeout, timeoutArg, pc, locals>>

\* that store is complete and SetProductionMode returns
EndSetProductionMode ==
    /\ setter.storing = "pickupRequestURL"
    /\ pickupRequestURL' = ProductionModeURL(setter.yes)
    /\ setter' = NoSetter
    /\ UNCHANGED <<timeout, modeArg, timeoutArg, pc, locals>>

\* another goroutine enters SetTimeout(seconds): its store to timeout is
\* under way
BeginSetTimeout(seconds) ==
    /\ setter.storing = ""
    /\ setter' = [NoSetter EXCEPT !.storing = "timeout", !.seconds = seconds]
    /\ timeoutArg' = seconds
    /\ UNCHANGED <<pickupRequestURL, timeout, modeArg, pc, locals>>

\* that store is complete and SetTimeout returns
EndSetTimeout ==
    /\ setter.storing = "timeout"
    /\ timeout' = TimeoutValue(setter.seconds)
    /\ setter' = NoSetter
    /\ UNCHANGED <<pickupRequestURL, modeArg, timeoutArg, pc, locals>>

\* what may lie behind a string constant in the program's read-only data:
\* the source does not fix it
Memory == {"TEST", "????"}

\* a string header whose data pointer is that of the string a and whose
\* length is that of the string b: the bytes it denotes
TornString(a, b) ==
    IF Len(b) <= Len(a) THEN {SubSeq(a, 1, Len(b))}
    ELSE {a \o SubSeq(m, 1, Len(b) - Len(a)) :
            m \in {k \in Memory : Len(k) >= Len(b) - Len(a)}}

\* the values a read of a string variable can return while a store of new
\* over old is under way and nothing orders the two: a string is two words
\* (data pointer, length), stored and loaded one word at a time
StringReads(old, new) ==
    {old, new} \cup TornString(old, new) \cup TornString(new, old)

\* an int64 whose low four bytes are those of a and high four those of b
TornInt64(a, b) == SubSeq(a, 1, 4) \o SubSeq(b, 5, 8)

\* the same for a time.Duration: one word where the machine word is 64
\* bits, two where it is 32
DurationReads(old, new) ==
    {old, new, TornInt64(old, new), TornInt64(new, old)}

\* the namespace attributes both operations write into the request first
WithAttrs(p) == [p EXCEPT !.XsdAttr = xsdAttr, !.XsiAttr = xsiAttr,
                          !.Soap12Attr = soap12Attr]

\* a call enters the operation o with the request p
Enter(o, p) ==
    /\ pc = "idle"
    /\ pc' = "marshal"
    /\ op' = o
    /\ req' = WithAttrs(p)
    /\ xmlString' = NoXML
    /\ httpClient' = NoClient
    /\ body' = NoBody
    /\ responseData' = IF o = "pickup" THEN ZeroPickupRequestResponse
                       ELSE ZeroRateQuoteResponse
    /\ err' = NoErr
    /\ logged' = FALSE
    /\ posts' = 0
    /\ postedURL' = ""
    /\ stages' = <<>>
    /\ UNCHANGED globals

\* p.RequestPickup() is called
RequestPickup(p) == Enter("pickup", p)

\* p.RateQuote() is called
RateQuote(p) == Enter("quote", p)

\* xml.Marshal(p), then the header and the trailing newline
Marshal ==
    /\ pc = "marshal"
    /\ LET m == IF op = "pickup" THEN MarshalPickupRequest(req)
                ELSE MarshalRateQuoteRequest(req)
       IN  IF m.err # ""
           THEN /\ err' = Wrap(op, "could not marshal xml", m.err)
                /\ pc' = "done"
                /\ UNCHANGED xmlString
           ELSE /\ xmlString' = XMLString(m.doc)
                /\ pc' = "client"
                /\ UNCHANGED err
    /\ stages' = Append(stages, "marshal")
    /\ UNCHANGED <<globals, op, req, httpClient, body, responseData, logged,
                   posts, postedURL>>

\* the values the call's read of timeout can return
TimeoutReads ==
    IF setter.storing = "timeout"
    THEN DurationReads(timeout, TimeoutValue(setter.seconds))
    ELSE {timeout}

\* httpClient := http.Client{Timeout: timeout}
NewClient ==
    /\ pc = "client"
    /\ \E t \in TimeoutReads : httpClient' = [Timeout |-> t]
    /\ pc' = "post"
    /\ UNCHANGED <<globals, op, req, xmlString, body, responseData, err, logged,
                   posts, postedURL, stages>>

\* a faulty variant of Endpoint: both operations post to the pickup URL
EndpointShared(o) == pickupRequestURL

\* a faulty variant of Endpoint: a pickup ignores the variable
EndpointTest(o) == IF o = "pickup" THEN pickupRequestTestURL ELSE rateQuoteURL

\* the URL the operation o posts to
Endpoint(o) == IF o = "pickup" THEN pickupRequestURL ELSE rateQuoteURL

\* the values the call's one read of its URL can return: rateQuoteURL is a
\* constant, pickupRequestURL a variable that a setter may be storing to
URLReads(o) ==
    IF o = "pickup" /\ setter.storing = "pickupRequestURL"
    THEN StringReads(Endpoint(o), ProductionModeURL(setter.yes))
    ELSE {Endpoint(o)}

\* http.Client arms its deadline only for a Timeout above zero; zero or a
\* negative Timeout means no timeout
TimerArmed(c) == IsPositive(c.Timeout)

\* httpClient.Post(url, ...) sends the request; the call then waits
Post ==
    /\ pc = "post"
    /\ posts' = posts + 1
    /\ \E url \in URLReads(op) : postedURL' = url
    /\ stages' = Append(stages, "post")
    /\ pc' = "waiting"
    /\ req' = NoRequest
    /\ xmlString' = NoXML
    /\ UNCHANGED <<globals, op, httpClient, body, responseData, err, logged>>

\* the call returns with the error e
Fail(e) ==
    /\ err' = e
    /\ pc' = "done"

\* the server's status line and headers arrive: Post returns a response
ServerAnswers ==
    /\ pc = "waiting"
    /\ pc' = "reading"
    /\ stages' = Append(stages, "read")
    /\ UNCHANGED <<globals, op, req, xmlString, httpClient, body, responseData,
                   err, logged, posts, postedURL>>

\* a faulty variant of TransportFails: the POST is tried again
TransportFailsRetry ==
    /\ pc = "waiting"
    /\ pc' = "post"
    /\ UNCHANGED <<globals, op, req, xmlString, httpClient, body, responseData,
                   err, logged, posts, postedURL, stages>>

\* the connection fails before a response arrives: Post returns an error
TransportFails ==
    /\ pc = "waiting"
    /\ Fail(Wrap(op, "could not make post request", "transport error"))
    /\ UNCHANGED <<globals, op, req, xmlString, httpClient, body, responseData,
                   logged, posts, postedURL, stages>>

\* the client's deadline passes: the pending Post, or the pending read of
\* the body, returns an error
TimerFires ==
    /\ pc \in {"waiting", "reading"}
    /\ TimerArmed(httpClient)
    /\ Fail(Wrap(op, IF pc = "waiting" THEN "could not make post request"
                     ELSE "could not read response 1", "Client.Timeout exceeded"))
    /\ UNCHANGED <<globals, op, req, xmlString, httpClient, body, responseData,
                   logged, posts, postedURL, stages>>

\* ioutil.ReadAll(res.Body) returns the whole body b
BodyArrives(b) ==
    /\ pc = "reading"
    /\ body' = b
    /\ pc' = "parse"
    /\ UNCHANGED <<globals, op, req, xmlString, httpClient, responseData, err,
                   logged, posts, postedURL, stages>>

\* ioutil.ReadAll(res.Body) returns an error
BodyFails ==
    /\ pc = "reading"
    /\ Fail(Wrap(op, "could not read response 1", "read error"))
    /\ UNCHANGED <<globals, op, req, xmlString, httpClient, body, responseData,
                   logged, posts, postedURL, stages>>

\* a faulty variant of Unmarshal: the error of xml.Unmarshal is dropped
UnmarshalIgnoringError ==
    /\ pc = "parse"
    /\ LET r == IF op = "pickup" THEN UnmarshalPickupRequestResponse(body)
                ELSE UnmarshalRateQuoteResponse(body)
       IN  responseData' = r.val
    /\ pc' = IF op = "pickup" THEN "check" ELSE "done"
    /\ stages' = Append(stages, "parse")
    /\ UNCHANGED <<globals, op, req, xmlString, httpClient, body, err, logged,
                   posts, postedURL>>

\* a faulty variant of Unmarshal: a rate quote without a QuoteID is an error
UnmarshalCheckingQuote ==
    /\ pc = "parse"
    /\ LET r == IF op = "pickup" THEN UnmarshalPickupRequestResponse(body)
                ELSE UnmarshalRateQuoteResponse(body)
       IN  /\ responseData' = r.val
           /\ IF r.err # ""
              THEN Fail(Wrap(op, "could not read response 2", r.err))
              ELSE IF op = "quote" /\ r.val.CreateResult.QuoteID = <<>>
              THEN Fail(Wrap(op, "rate quote failed", "no quote"))
              ELSE /\ pc' = IF op = "pickup" THEN "check" ELSE "done"
                   /\ UNCHANGED err
    /\ stages' = Append(stages, "parse")
    /\ UNCHANGED <<globals, op, req, xmlString, httpClient, body, logged,
                   posts, postedURL>>

\* xml.Unmarshal(body, &responseData)
Unmarshal ==
    /\ pc = "parse"
    /\ LET r == IF op = "pickup" THEN UnmarshalPickupRequestResponse(body)
                ELSE UnmarshalRateQuoteResponse(body)
       IN  /\ responseData' = r.val
           /\ IF r.err # ""
              THEN Fail(Wrap(op, "could not read response 2", r.err))
              ELSE /\ pc' = IF op = "pickup" THEN "check" ELSE "done"
                   /\ UNCHANGED err
    /\ stages' = Append(stages, "parse")
    /\ UNCHANGED <<globals, op, req, xmlString, httpClient, body, logged,
                   posts, postedURL>>

\* a faulty variant of ConfirmationMissing: a Message counts as a result
ConfirmationAndMessageMissing(r) ==
    r.CreateResult.PickupConfirmation = <<>> /\ r.CreateResult.Message = <<>>

\* responseData.CreateResult.PickupConfirmation == ""
ConfirmationMissing(r) == r.CreateResult.PickupConfirmation = <<>>

\* the pickup-only check of the parsed result; on failure the body and its
\* loose re-parse are logged
CheckConfirmation ==
    /\ pc = "check"
    /\ IF ConfirmationMissing(responseData)
       THEN /\ logged' = TRUE
            /\ err' = PickupFailed
       ELSE UNCHANGED <<logged, err>>
    /\ pc' = "done"
    /\ stages' = Append(stages, "check")
    /\ UNCHANGED <<globals, op, req, xmlString, httpClient, body, responseData,
                   posts, postedURL>>

\* the call returns (responseData, err) to its caller, and its frame is gone
Return ==
    /\ pc = "done"
    /\ pc' = "idle"
    /\ op' = "none"
    /\ req' = NoRequest
    /\ xmlString' = NoXML
    /\ httpClient' = NoClient
    /\ body' = NoBody
    /\ responseData' = NoResponse
    /\ err' = NoErr
    /\ logged' = FALSE
    /\ posts' = 0
    /\ postedURL' = ""
    /\ stages' = <<>>
    /\ UNCHANGED globals

Next ==
    \/ \E yes \in BOOLEAN : SetProductionMode(yes)
    \/ \E seconds \in TimeoutArgs : SetTimeout(seconds)
    \/ \E p \in PickupRequest : RequestPickup(p)
    \/ \E p \in RateQuoteRequest : RateQuote(p)
    \/ Marshal
    \/ NewClient
    \/ Post
    \/ ServerAnswers
    \/ TransportFails
    \/ TimerFires
    \/ \E b \in Bodies : BodyArrives(b)
    \/ BodyFails
    \/ Unmarshal
    \/ CheckConfirmation
    \/ Return

Spec == Init /\ [][Next]_vars

\* the timeouts and the response bodies of the runs with two goroutines
RaceTimeoutArgs == {Dur(0), Dur(1)}
RaceBodies == {b \in Bodies : b.syntax = "wellFormed" /\ b.doc.name.prefix = ""}

\* a caller and, beside it, a goroutine that calls the setters
RaceNext ==
    \/ \E yes \in BOOLEAN : BeginSetProductionMode(yes)
    \/ EndSetProductionMode
    \/ \E seconds \in RaceTimeoutArgs : BeginSetTimeout(seconds)
    \/ EndSetTimeout
    \/ RequestPickup(ZeroPickupRequest)
    \/ RateQuote(ZeroRateQuoteRequest)
    \/ Marshal
    \/ NewClient
    \/ Post
    \/ ServerAnswers
    \/ TransportFails
    \/ TimerFires
    \/ \E b \in RaceBodies : BodyArrives(b)
    \/ BodyFails
    \/ Unmarshal
    \/ CheckConfirmation
    \/ Return

RaceSpec == Init /\ [][RaceNext]_vars

\* the scheduler runs every step of a call that is ready, and a deadline
\* that is armed passes; the server and the network owe nothing
LiveSpec ==
    /\ Spec
    /\ WF_vars(Marshal) /\ WF_vars(NewClient) /\ WF_vars(Post)
    /\ WF_vars(Unmarshal) /\ WF_vars(CheckConfirmation) /\ WF_vars(Return)
    /\ WF_vars(TimerFires)

(***************************************************************************)
(* Claims.                                                                 *)
(***************************************************************************)
RECURSIVE ChildrenNamed(_, _)
\* the children, in document order, of the elements es whose local name is l
ChildrenNamed(es, l) ==
    IF es = <<>> THEN <<>>
    ELSE SelectSeq(Head(es).kids, LAMBDA k : k.name.local = l)
         \o ChildrenNamed(Tail(es), l)

RECURSIVE Descendants(_, _)
\* the elements reached from es along a path of local names
Descendants(es, path) ==
    IF path = <<>> THEN es
    ELSE Descendants(ChildrenNamed(es, Head(path)), Tail(path))

\* the texts of the elements that a document holds at a path below its root
TextsAt(doc, path) ==
    LET hit == Descendants(<<doc>>, path)
    IN  [i \in 1..Len(hit) |-> hit[i].text]

\* the texts of the PickupConfirmation elements at
\* Envelope/Body/CreateResponse/CreateResult of the body b
ConfirmationTexts(b) ==
    LET ts == TextsAt(b.doc, <<"Body", "CreateResponse", "CreateResult",
                               "PickupConfirmation">>)
    IN  {ts[i] : i \in 1..Len(ts)}

\* the body's root element is an Envelope, with or without a prefix
HasEnvelopeRoot(b) == b.doc.name.local = "Envelope"

\* the decoder reads the body's root element to its end without an error
RootIsReadable(b) == b.syntax \in {"wellFormed", "junkAfterRoot"}

\* C1: when the body of a pickup response parses (its root element is a
\* readable Envelope) and carries no PickupConfirmation, or an empty one,
\* RequestPickup returns the 'pickup request failed' error and a response
\* whose confirmation is empty, whatever Message and PickupTerminal hold.
C1_EmptyConfirmationIsFailure ==
    (/\ pc = "done" /\ op = "pickup" /\ body # NoBody
     /\ RootIsReadable(body) /\ HasEnvelopeRoot(body)
     /\ ConfirmationTexts(body) \subseteq {<<>>})
    => /\ err = PickupFailed
       /\ responseData.CreateResult.PickupConfirmation = <<>>

\* C1 witness: a returned pickup call whose body has a Message and a
\* PickupTerminal but no confirmation text
C1_Witness ==
    /\ pc = "done" /\ op = "pickup"
    /\ RootIsReadable(body) /\ HasEnvelopeRoot(body)
    /\ ConfirmationTexts(body) = {<<>>}
    /\ responseData.CreateResult.Message = <<"n", "o">>
    /\ responseData.CreateResult.PickupTerminal = <<"T">>
    /\ err = PickupFailed

\* C2: when the POST of a pickup request succeeds and the body is a
\* well-formed Envelope with a non-empty PickupConfirmation, RequestPickup
\* returns a nil error and the confirmation of the body, entities resolved
\* (the body's ABC123 is returned as ABC123).
C2_ConfirmationIsReturned ==
    \A t \in ConfirmationTexts(body) :
        (/\ pc = "done" /\ op = "pickup"
         /\ WellFormed(body) /\ HasEnvelopeRoot(body) /\ t # <<>>)
        => /\ err = NoErr
           /\ responseData.CreateResult.PickupConfirmation = UnescapeText(t)
           /\ (t = <<"A", "B", "C", "1", "2", "3">>
               => responseData.CreateResult.PickupConfirmation
                    = <<"A", "B", "C", "1", "2", "3">>)
           /\ (t = <<"7", "&amp;", "7">>
               => responseData.CreateResult.PickupConfirmation = <<"7", "&", "7">>)

\* C2 witness: a pickup call that returned confirmation ABC123 and no error
C2_Witness ==
    /\ pc = "done" /\ op = "pickup" /\ WellFormed(body)
    /\ err = NoErr /\ posts = 1
    /\ responseData.CreateResult.PickupConfirmation = <<"A", "B", "C", "1", "2", "3">>

\* the message of the deserialization error of the operation in progress
ReadResponse2 == Wrap(op, "could not read response 2", "").msg

\* C3 as stated: for every body that is not well-formed XML, or whose root
\* is no Envelope, the call returns the 'could not read response 2' error
\* and never reaches the empty-confirmation check.
C3_Original ==
    (/\ pc = "done" /\ body # NoBody
     /\ (~WellFormed(body) \/ ~HasEnvelopeRoot(body)))
    => /\ err.msg = ReadResponse2
       /\ ~("check" \in {stages[i] : i \in 1..Len(stages)})

\* C3 as amended: for every body the decoder cannot read to the end of its
\* root element (empty, not XML, an unclosed root) or whose root is no
\* Envelope, both operations return the 'could not read response 2' error,
\* wrapping the decoder's error, without reaching the confirmation check;
\* a body that is malformed only after the end of its root element is not
\* rejected, and a pickup call goes on to the confirmation check.
C3_UnreadableBodyIsDeserializationError ==
    /\ (/\ pc = "done" /\ body # NoBody
        /\ (~RootIsReadable(body) \/ ~HasEnvelopeRoot(body)))
       => /\ err.msg = ReadResponse2
          /\ err.cause # ""
          /\ ~logged
          /\ ~("check" \in {stages[i] : i \in 1..Len(stages)})
    /\ (/\ pc = "done" /\ op = "pickup"
        /\ body.syntax = "junkAfterRoot" /\ HasEnvelopeRoot(body))
       => /\ err.msg # ReadResponse2
          /\ "check" \in {stages[i] : i \in 1..Len(stages)}

\* C3 witness: a rate quote call that returned the deserialization error for
\* a body whose root element is not closed
C3_Witness ==
    /\ pc = "done" /\ op = "quote"
    /\ body.syntax = "unclosedRoot" /\ HasEnvelopeRoot(body)
    /\ err = Wrap("quote", "could not read response 2", "XML syntax error: unexpected EOF")

\* C4 as stated: a pickup request is posted to the URL that the argument of
\* the last SetProductionMode call names: production after true, test after
\* false.
C4_ModeArgumentIsHonoured ==
    [][(Post /\ op = "pickup")
       => /\ (modeArg = "true" => postedURL' = pickupRequestProductionURL)
          /\ (modeArg = "false" => postedURL' = pickupRequestTestURL)]_vars

C6_ModeChangesOnlyPickupEndpoint ==
    /\ [][(\E yes \in BOOLEAN : SetProductionMode(yes))
          => UNCHANGED <<timeout, pc, locals>>]_vars
    /\ [][(Post /\ op = "quote") => postedURL' = rateQuoteURL]_vars

\* C6 witness: a rate quote posted to the rate quote URL after production
\* mode was set, the timeout still being the default
C6_Witness ==
    /\ op = "quote" /\ posts = 1 /\ postedURL = rateQuoteURL
    /\ modeArg = "true" /\ pickupRequestURL = pickupRequestProductionURL
    /\ timeout = DefaultTimeout

\* C7 as stated: every call eventually returns, whatever timeout was set.
C7_EveryCallReturns == (pc # "idle") ~> (pc = "idle")

\* C8 as stated: the timeout is 10 seconds until SetTimeout is called; after
\* SetTimeout(v) the product v * time.Second has not wrapped and the
\* timeout is the duration v that was passed.
C8_TimeoutIsTheDurationPassed ==
    /\ (timeoutArg = <<>> => timeout = Mul64(Dur(10), Second))
    /\ (timeoutArg # <<>> => /\ ProductFits(timeoutArg, Second)
                             /\ timeout = timeoutArg)

\* C9 as stated: re-parsing the serialized request into the same structure
\* succeeds and gives back the request.
C9_Original ==
    pc = "client" =>
        /\ (op = "pickup" =>
              LET r == UnmarshalPickupRequest(xmlString)
              IN  r.err = "" /\ r.val = req)
        /\ (op = "quote" =>
              LET r == UnmarshalRateQuoteRequest(xmlString)
              IN  r.err = "" /\ r.val = req)

\* a string as the serialized document carries it: a character XML cannot
\* carry has become U+FFFD
Carried(s) == [i \in 1..Len(s) |-> IF s[i] = "U+0001" THEN "U+FFFD" ELSE s[i]]

\* the numbers that decimal texts denote
Numbers(ts) == [i \in 1..Len(ts) |-> ParseUint(ts[i])]

\* C9 as amended: re-parsing the serialized request into the same structure
\* fails for every request, with 'expected element type <soap12:Envelope>',
\* and gives back none of it.  The serialized document does hold every
\* populated field under its local element names: each unsigned field as the
\* decimal text of its value, each list as one element per item in the
\* list's order, each string field verbatim apart from characters XML
\* cannot carry, which are U+FFFD in the document.
C9_SerializedRequestHoldsFieldsButDoesNotReparse ==
    pc = "client" =>
        LET doc == xmlString.doc
            inner == <<"Body", "request">>
        IN  /\ doc.name = QName("soap12", "Envelope")
            /\ (op = "pickup" =>
                 LET r == UnmarshalPickupRequest(xmlString)
                     code == TextsAt(doc, inner \o <<"ShipperInformation", "ShipperCode">>)
                     pieces == TextsAt(doc, inner \o <<"Shipment", "Pieces">>)
                 IN  /\ r.err = "expected element type <soap12:Envelope>"
                     /\ r.val = ZeroPickupRequest
                     /\ Len(code) = 1
                     /\ UnescapeText(code[1]) = Carried(req.ShipperInfo.ShipperCode)
                     /\ Numbers(pieces) = <<[err |-> FALSE, val |-> req.Shipment.Pieces]>>)
            /\ (op = "quote" =>
                 LET r == UnmarshalRateQuoteRequest(xmlString)
                     q == req.Request
                     weights == TextsAt(doc, inner \o <<"Details", "DetailItem", "Weight">>)
                     codes == TextsAt(doc, inner \o <<"Accessorials", "AccessorialItem", "Code">>)
                     pallets == TextsAt(doc, inner \o <<"PalletCount">>)
                 IN  /\ r.err = "expected element type <soap12:Envelope>"
                     /\ r.val = ZeroRateQuoteRequest
                     /\ Numbers(weights) = [i \in 1..Len(q.Details) |->
                                              [err |-> FALSE, val |-> q.Details[i].Weight]]
                     /\ [i \in 1..Len(codes) |-> UnescapeText(codes[i])]
                          = [i \in 1..Len(q.Accessorials) |-> Carried(q.Accessorials[i].Code)]
                     /\ Numbers(pallets) = <<[err |-> FALSE, val |-> q.PalletCount]>>)

\* C9 witness: a rate quote request with two different detail items and an
\* accessorial code that needs escaping has been serialized
C9_Witness ==
    /\ pc = "client" /\ op = "quote"
    /\ Len(req.Request.Details) = 2
    /\ req.Request.Details[1].Weight < req.Request.Details[2].Weight
    /\ Len(req.Request.Accessorials) >= 1
    /\ req.Request.Accessorials[1].Code = <<"<">>
    /\ UnmarshalRateQuoteRequest(xmlString).err # ""

StageOrder == <<"marshal", "post", "read", "parse", "check">>

\* the message that names a stage in the errors of the operation o
StageMessage(o, stage) ==
    CASE stage = "marshal" -> Wrap(o, "could not marshal xml", "").msg
      [] stage = "post" -> Wrap(o, "could not make post request", "").msg
      [] stage = "read" -> Wrap(o, "could not read response 1", "").msg
      [] stage = "parse" -> Wrap(o, "could not read response 2", "").msg
      [] OTHER -> "ward.RequestPickup - pickup request failed"

\* C10: the stages of a call are entered in the order marshal, POST, read,
\* parse (and, for a pickup, the confirmation check); a call that has an
\* error has stopped, the error carries the message of the last stage
\* entered and, for the first four stages, the cause it wraps; a call
\* without an error that has stopped went through every stage; and at most
\* one POST is issued, exactly when the POST stage was entered.
C10_StagesInOrderOnePost ==
    LET entered == {stages[i] : i \in 1..Len(stages)}
        last == stages[Len(stages)]
    IN  /\ Len(stages) <= Len(StageOrder)
        /\ stages = SubSeq(StageOrder, 1, Len(stages))
        /\ (op = "quote" => ~("check" \in entered))
        /\ posts <= 1
        /\ (posts = 1 <=> "post" \in entered)
        /\ (err # NoErr =>
              /\ pc = "done"
              /\ stages # <<>>
              /\ err.msg = StageMessage(op, last)
              /\ (last # "check" => err.cause # ""))
        /\ (pc = "done" /\ err = NoErr =>
              last = IF op = "pickup" THEN "check" ELSE "parse")

\* C10 witness: a rate quote call stopped by a transport failure, after one
\* POST and before any parse
C10_Witness ==
    /\ pc = "done" /\ op = "quote" /\ posts = 1
    /\ stages = <<"marshal", "post">>
    /\ err = Wrap("quote", "could not make post request", "transport error")

\* the values a pickup's read of pickupRequestURL may return while
\* SetProductionMode is storing to it: the test URL, the production URL, or
\* the production URL's bytes followed by whatever lies behind them
URLsUnderStore ==
    {pickupRequestTestURL, pickupRequestProductionURL}
    \cup {pickupRequestProductionURL \o m : m \in Memory}

ResultTexts(b, field) ==
    TextsAt(b.doc, <<"Body", "CreateResponse", "CreateResult", field>>)

\* C12: a rate quote call never logs a body, never enters the confirmation
\* check and never returns the 'pickup request failed' error; and when the
\* body parses (its root element is a readable Envelope and every
\* NetCharge in it is empty or a number), RateQuote returns a nil error and
\* the result as parsed: the QuoteID and NetCharge of the body, and the
\* zero value of a field that is absent or empty, also when both are.
C12_QuoteIsReturnedAsParsed ==
    op = "quote" =>
        LET charges == ResultTexts(body, "NetCharge")
            ids == ResultTexts(body, "QuoteID")
            parses == /\ RootIsReadable(body) /\ HasEnvelopeRoot(body)
                      /\ \A i \in 1..Len(charges) :
                            ~ParseFloat(UnescapeText(charges[i])).err
            result == responseData.CreateResult
        IN  /\ ~logged
            /\ err # PickupFailed
            /\ \A i \in 1..Len(stages) : stages[i] # "check"
            /\ (pc = "done" /\ body # NoBody /\ parses) =>
                  /\ err = NoErr
                  /\ result.QuoteID =
                       IF ids = <<>> THEN <<>> ELSE UnescapeText(ids[Len(ids)])
                  /\ result.NetCharge =
                       IF charges = <<>> THEN <<0, <<>>>>
                       ELSE ParseFloat(UnescapeText(charges[Len(charges)])).val
                  /\ ((charges = <<>> \/ charges = <<<<>>>>) /\ ids = <<>>
                       => responseData = ZeroRateQuoteResponse)

\* C12 witness: a rate quote call that returned no error and a result with
\* no NetCharge and no QuoteID, from a well-formed Envelope whose
\* CreateResult is empty
C12_Witness ==
    /\ pc = "done" /\ op = "quote" /\ posts = 1
    /\ WellFormed(body) /\ HasEnvelopeRoot(body)
    /\ Len(TextsAt(body.doc, <<"Body", "CreateResponse", "CreateResult">>)) = 1
    /\ ResultTexts(body, "NetCharge") = <<>>
    /\ ResultTexts(body, "QuoteID") = <<>>
    /\ err = NoErr
    /\ responseData = ZeroRateQuoteResponse

====
